---- MODULE Spec2Model ----
(***************************************************************************)
(* Local store manager and sync coordinator of the mcpSovereign SDK        *)
(* (src/src/index.ts: LocalStoreManager, SovereignClient.push / pull).     *)
(*                                                                         *)
(* A product is a function from field names to values; a field that is     *)
(* absent from the JavaScript object and a field whose value is undefined  *)
(* are both the value Undef.  The content fields name, description,        *)
(* category_id, delivery_* , content_hash and file_size_bytes are all      *)
(* handled alike by the code (spread, copied into the manifest data); the  *)
(* model carries two of them, name and price.                              *)
(***************************************************************************)
EXTENDS Integers, Sequences, FiniteSets, TLC

\* ---------------------------------------------------------------- bounds
MaxIds      == 2      \* local ids issued (products created) over a run
MaxTime     == 1      \* latest reading of the local clock (Date.now)
MaxHistory  == 1      \* sync results applied over a run

\* ---------------------------------------------------------------- values
Undef == "undefined"
Null  == "null"

Names       == {"n1"}
Prices      == {"500", "999"}
RemoteIds   == {"r1", "r2"}
Times       == 0..MaxTime
AgentIds    == {"a1"}
SyncIds     == {"s1"}
ServerTimes == {"T1"}
LocalIds    == 1..MaxIds

ContentFields == {"name", "description", "category_id", "price",
                  "delivery_type", "delivery_payload", "content_hash",
                  "file_size_bytes"}

Fields == {"local_id", "remote_id", "status", "created_at", "updated_at",
           "synced_at"} \cup ContentFields

\* JavaScript truthiness of a string-or-undefined value
Truthy(v) == v # Undef /\ v # Null /\ v # ""

\* an optional object: None when it is null / undefined, Some(x) otherwise
None    == <<>>
Some(x) == <<x>>

\* { ...base, ...over } : keys of over win, an explicit undefined included
Spread(base, over) ==
  [k \in (DOMAIN base) \cup (DOMAIN over) |->
      IF k \in DOMAIN over THEN over[k] ELSE base[k]]

\* property read: a missing key reads as undefined
Get(obj, k) == IF k \in DOMAIN obj THEN obj[k] ELSE Undef

\* a LocalProduct with every field present (missing ones read undefined)
LocalProduct(obj) == [k \in Fields |-> Get(obj, k)]

VARIABLES store, file, now, nextId, issued, pc, manifest, pushResult, other,
          server

vars ==
  <<store, file, now, nextId, issued, pc, manifest, pushResult, other, server>>

\* ------------------------------------------------------- LocalStoreManager
getDefaultStore ==
  [version |-> "1.0.0", profile |-> [name |-> Undef], products |-> <<>>,
   sync_history |-> <<>>, last_sync |-> Undef]

\* findIndex(p => p.local_id === localId), 0 when there is none
RECURSIVE findIndexFrom(_, _, _)
findIndexFrom(products, localId, i) ==
  IF i > Len(products) THEN 0
  ELSE IF products[i]["local_id"] = localId THEN i
  ELSE findIndexFrom(products, localId, i + 1)

findIndex(products, localId) == findIndexFrom(products, localId, 1)

getProduct(st, localId) ==
  LET i == findIndex(st.products, localId)
  IN  IF i = 0 THEN None ELSE Some(st.products[i])

\* 'local_' + Date.now().toString(36) + random suffix: the next unused id
generateId == nextId

\* the same with the draw of Math.random() left open: the reading t of
\* Date.now() followed by the suffix r; nothing looks at the ids in use
RandomSuffixes == 1..MaxIds
generateIdDrawn(t, r) == t * MaxIds + r

\* the record createProduct builds from its argument, the id and two clock reads
newProduct(product, id, t1, t2) ==
  LocalProduct(Spread(product,
     [local_id |-> id, status |-> "draft", created_at |-> t1, updated_at |-> t2]))

\* mutant: every edit marks the product modified
updatedProductAlwaysModified(existing, updates, t) ==
  LocalProduct(Spread(Spread(existing, updates),
     [local_id   |-> existing["local_id"],
      updated_at |-> t,
      status     |-> "modified"]))

\* mutant: local_id is not restored after the updates are spread
updatedProductTakesLocalId(existing, updates, t) ==
  LocalProduct(Spread(Spread(existing, updates),
     [updated_at |-> t,
      status     |-> IF Truthy(existing["remote_id"]) THEN "modified"
                     ELSE existing["status"]]))

\* mutant: the edit of a synced product is not marked modified
updatedProductKeepsStatus(existing, updates, t) ==
  LocalProduct(Spread(Spread(existing, updates),
     [local_id   |-> existing["local_id"],
      updated_at |-> t,
      status     |-> existing["status"]]))

\* the record updateProduct stores in place of existing
updatedProduct(existing, updates, t) ==
  LocalProduct(Spread(Spread(existing, updates),
     [local_id   |-> existing["local_id"],
      updated_at |-> t,
      status     |-> IF Truthy(existing["remote_id"]) THEN "modified"
                     ELSE existing["status"]]))

\* updateProduct: the store afterwards and the value returned
updateProductStore(st, localId, updates, t) ==
  LET index == findIndex(st.products, localId)
  IN  IF index = 0 THEN st
      ELSE [st EXCEPT !.products[index] = updatedProduct(@, updates, t)]

updateProductReturn(st, localId, updates, t) ==
  LET index == findIndex(st.products, localId)
  IN  IF index = 0 THEN None
      ELSE Some(updatedProduct(st.products[index], updates, t))

\* markReady delegates to updateProduct with { status: 'ready' }
markReadyStore(st, localId, t) ==
  updateProductStore(st, localId, [status |-> "ready"], t)

markReadyReturn(st, localId, t) ==
  updateProductReturn(st, localId, [status |-> "ready"], t)

\* splice(index, 1)
RemoveAt(s, i) == SubSeq(s, 1, i - 1) \o SubSeq(s, i + 1, Len(s))

\* mutant: the product is kept as a tombstone instead of being spliced out
deleteProductStoreTombstone(st, localId) ==
  LET index == findIndex(st.products, localId)
  IN  IF index = 0 THEN st
      ELSE [st EXCEPT !.products[index]["status"] = "deleted"]

\* mutant: the index is not tested, and splice(-1, 1) removes the last product
deleteProductStoreUnchecked(st, localId) ==
  LET index == findIndex(st.products, localId)
  IN  IF st.products = <<>> THEN st
      ELSE [st EXCEPT !.products =
              RemoveAt(@, IF index = 0 THEN Len(st.products) ELSE index)]

deleteProductStore(st, localId) ==
  LET index == findIndex(st.products, localId)
  IN  IF index = 0 THEN st
      ELSE [st EXCEPT !.products = RemoveAt(@, index)]

deleteProductReturn(st, localId) == findIndex(st.products, localId) # 0

getUnsyncedProducts(st) ==
  SelectSeq(st.products,
            LAMBDA p : p["status"] = "ready" \/ p["status"] = "modified")

\* mutant: a modified product that has a remote id is reported as a deletion
manifestActionReportsDeletion(p) ==
  IF ~Truthy(p["remote_id"]) /\ p["status"] = "ready" THEN "create"
  ELSE IF Truthy(p["remote_id"]) /\ p["status"] = "modified" THEN "delete"
  ELSE "unchanged"

\* the action generateSyncManifest decides for a non-draft product
manifestAction(p) ==
  IF ~Truthy(p["remote_id"]) /\ p["status"] = "ready" THEN "create"
  ELSE IF Truthy(p["remote_id"]) /\ p["status"] = "modified" THEN "update"
  ELSE "unchanged"

\* mutant: the snapshot is attached to every entry
manifestEntryAlwaysData(p) ==
  [local_id         |-> p["local_id"],
   remote_id        |-> p["remote_id"],
   action           |-> manifestAction(p),
   data             |-> Some([k \in ContentFields |-> p[k]]),
   local_updated_at |-> p["updated_at"]]

\* the manifest entry of one product; data is None for an unchanged entry
manifestEntry(p) ==
  [local_id         |-> p["local_id"],
   remote_id        |-> p["remote_id"],
   action           |-> manifestAction(p),
   data             |-> IF manifestAction(p) # "unchanged"
                        THEN Some([k \in ContentFields |-> p[k]])
                        ELSE None,
   local_updated_at |-> p["updated_at"]]

\* mutant: the draft filter is left out
manifestProductsUnfiltered(st) ==
  [i \in 1..Len(st.products) |-> manifestEntry(st.products[i])]

manifestProducts(st) ==
  LET kept == SelectSeq(st.products, LAMBDA p : p["status"] # "draft")
  IN  [i \in 1..Len(kept) |-> manifestEntry(kept[i])]

\* JSON.stringify(products) as the sequence of its tokens: per entry the keys
\* in the order the entry is built, a key whose value is undefined left out
StringTable ==
  <<"n1", "d1", "c1", "500", "999", "download", "p1", "h1", "10", "r1", "r2",
    "create", "update", "unchanged", "delete", "null", "">>

StringCode(v) == CHOOSE i \in 1..Len(StringTable) : StringTable[i] = v

ContentOrder ==
  <<"name", "description", "category_id", "price", "delivery_type",
    "delivery_payload", "content_hash", "file_size_bytes">>

\* the members of the data object, in the order of the literal; a member
\* whose value is undefined is left out (an empty string here)
stringifyData(data) ==
  [k \in 1..Len(ContentOrder) |->
     IF data[ContentOrder[k]] = Undef THEN <<>>
     ELSE <<40 + k, StringCode(data[ContentOrder[k]])>>]

\* the members of one manifest entry
stringifyEntry(e) ==
  << <<31, e.local_id>>,
     IF e.remote_id = Undef THEN <<>> ELSE <<32, StringCode(e.remote_id)>>,
     <<33, StringCode(e.action)>> >>
    \o (IF e.data = None THEN <<>> ELSE << <<34>> >> \o stringifyData(e.data[1]))
    \o << <<35, e.local_updated_at>> >>

\* JSON.stringify(products), kept as its pieces: the entries, each one the
\* sequence of its members, each member a string of character codes
stringifyProducts(products) ==
  [i \in 1..Len(products) |-> stringifyEntry(products[i])]

\* hash = ((hash << 5) - hash) + char; hash = hash & hash: 31 * hash + char
\* in 32 bits, kept as the two 16-bit halves <<high, low>>
hashStep(hash, char) ==
  LET low  == 31 * hash[2] + char
      high == 31 * hash[1] + (low \div 65536)
  IN  <<high % 65536, low % 65536>>

\* the loop over the characters of one piece; the test on next evaluates the
\* hash of this iteration before the following one starts
RECURSIVE hashFrom(_, _)
hashFrom(hash, str) ==
  IF str = <<>> THEN hash
  ELSE LET next == hashStep(hash, Head(str))
       IN  IF next[1] < 0 THEN next ELSE hashFrom(next, Tail(str))

\* the loop carried on from one member of an entry to the following one
RECURSIVE hashPieces(_, _)
hashPieces(hash, pieces) ==
  IF pieces = <<>> THEN hash
  ELSE LET next == hashFrom(hash, Head(pieces))
       IN  IF next[1] < 0 THEN next ELSE hashPieces(next, Tail(pieces))

\* the loop carried on from one entry of the array to the following one
RECURSIVE hashEntries(_, _)
hashEntries(hash, entries) ==
  IF entries = <<>> THEN hash
  ELSE LET next == hashPieces(hash, Head(entries))
       IN  IF next[1] < 0 THEN next ELSE hashEntries(next, Tail(entries))

\* Math.abs of the signed 32-bit value (the hexadecimal digits are the number)
abs32(hash) ==
  IF hash[1] < 32768 THEN hash
  ELSE IF hash[2] = 0 THEN <<(65536 - hash[1]) % 65536, 0>>
  ELSE <<65535 - hash[1], 65536 - hash[2]>>

generateChecksum(str) == abs32(hashEntries(<<0, 0>>, str))

\* mutant: the checksum is taken over the manifest, timestamp and agent included
generateSyncManifestStamped(st, agentId, t) ==
  [version       |-> "1.0.0",
   agent_id      |-> agentId,
   timestamp     |-> t,
   products      |-> manifestProducts(st),
   store_profile |-> st.profile,
   checksum      |-> generateChecksum(
                       << << <<t, IF agentId = "a1" THEN 1 ELSE 2>> >> >>
                         \o stringifyProducts(manifestProducts(st)))]

generateSyncManifest(st, agentId, t) ==
  [version       |-> "1.0.0",
   agent_id      |-> agentId,
   timestamp     |-> t,
   products      |-> manifestProducts(st),
   store_profile |-> st.profile,
   checksum      |-> generateChecksum(stringifyProducts(manifestProducts(st)))]

\* first loop of applySyncResults: created pairs, in list order
RECURSIVE applyCreated(_, _, _)
applyCreated(products, created, timestamp) ==
  IF created = <<>> THEN products
  ELSE LET index == findIndex(products, Head(created).local_id)
           next  == IF index = 0 THEN products
                    ELSE [products EXCEPT
                            ![index]["remote_id"] = Head(created).remote_id,
                            ![index]["status"]    = "synced",
                            ![index]["synced_at"] = timestamp]
       IN  applyCreated(next, Tail(created), timestamp)

\* second loop of applySyncResults: updated pairs, in list order
RECURSIVE applyUpdated(_, _, _)
applyUpdated(products, updated, timestamp) ==
  IF updated = <<>> THEN products
  ELSE LET index == findIndex(products, Head(updated).local_id)
           next  == IF index = 0 THEN products
                    ELSE [products EXCEPT
                            ![index]["status"]    = "synced",
                            ![index]["synced_at"] = timestamp]
       IN  applyUpdated(next, Tail(updated), timestamp)

\* mutant: the products listed under errors are put back to draft
applySyncResultsErrorsDraft(st, results) ==
  LET applied == applyUpdated(
                   applyCreated(st.products, results.results.created,
                                results.timestamp),
                   results.results.updated, results.timestamp)
      errored == {results.results.errors[k].local_id :
                    k \in 1..Len(results.results.errors)}
  IN  [st EXCEPT
         !.products     = [i \in 1..Len(applied) |->
                             IF applied[i]["local_id"] \in errored
                               THEN [applied[i] EXCEPT !["status"] = "draft"]
                               ELSE applied[i]],
         !.sync_history = Append(@,
                            [id              |-> results.sync_id,
                             direction       |-> "push",
                             timestamp       |-> results.timestamp,
                             products_synced |-> Len(results.results.created)
                                                 + Len(results.results.updated)]),
         !.last_sync    = results.timestamp]

\* mutant: a created pair for a product that already has a remote id is
\* taken for a conflict and the product is marked modified
applySyncResultsConflict(st, results) ==
  LET applied  == applyUpdated(
                    applyCreated(st.products, results.results.created,
                                 results.timestamp),
                    results.results.updated, results.timestamp)
      conflict == {results.results.created[k].local_id :
                     k \in 1..Len(results.results.created)}
  IN  [st EXCEPT
         !.products     = [i \in 1..Len(applied) |->
                             IF /\ applied[i]["local_id"] \in conflict
                                /\ Truthy(st.products[i]["remote_id"])
                               THEN [applied[i] EXCEPT !["status"] = "modified"]
                               ELSE applied[i]],
         !.sync_history = Append(@,
                            [id              |-> results.sync_id,
                             direction       |-> "push",
                             timestamp       |-> results.timestamp,
                             products_synced |-> Len(results.results.created)
                                                 + Len(results.results.updated)]),
         !.last_sync    = results.timestamp]

\* mutant: the products listed under errors are marked synced as well
applySyncResultsErrorsSynced(st, results) ==
  [st EXCEPT
     !.products     = applyUpdated(
                        applyUpdated(
                          applyCreated(@, results.results.created, results.timestamp),
                          results.results.updated, results.timestamp),
                        results.results.errors, results.timestamp),
     !.sync_history = Append(@,
                        [id              |-> results.sync_id,
                         direction       |-> "push",
                         timestamp       |-> results.timestamp,
                         products_synced |-> Len(results.results.created)
                                             + Len(results.results.updated)]),
     !.last_sync    = results.timestamp]

\* mutant: the products listed under deleted are removed from the store
applySyncResultsDropsDeleted(st, results) ==
  [st EXCEPT
     !.products     = SelectSeq(
                        applyUpdated(
                          applyCreated(@, results.results.created, results.timestamp),
                          results.results.updated, results.timestamp),
                        LAMBDA p : \A k \in 1..Len(results.results.deleted) :
                                     results.results.deleted[k] # p["local_id"]),
     !.sync_history = Append(@,
                        [id              |-> results.sync_id,
                         direction       |-> "push",
                         timestamp       |-> results.timestamp,
                         products_synced |-> Len(results.results.created)
                                             + Len(results.results.updated)]),
     !.last_sync    = results.timestamp]

\* mutant: sync_history keeps the latest entry only
applySyncResultsLatestOnly(st, results) ==
  [st EXCEPT
     !.products     = applyUpdated(
                        applyCreated(@, results.results.created, results.timestamp),
                        results.results.updated, results.timestamp),
     !.sync_history = <<[id              |-> results.sync_id,
                         direction       |-> "push",
                         timestamp       |-> results.timestamp,
                         products_synced |-> Len(results.results.created)
                                             + Len(results.results.updated)]>>,
     !.last_sync    = results.timestamp]

\* applySyncResults on a well-formed SyncResult
applySyncResults(st, results) ==
  [st EXCEPT
     !.products     = applyUpdated(
                        applyCreated(@, results.results.created, results.timestamp),
                        results.results.updated, results.timestamp),
     !.sync_history = Append(@,
                        [id              |-> results.sync_id,
                         direction       |-> "push",
                         timestamp       |-> results.timestamp,
                         products_synced |-> Len(results.results.created)
                                             + Len(results.results.updated)]),
     !.last_sync    = results.timestamp]

\* the fields that always hold a number in the model
NumberFields == {"local_id", "created_at", "updated_at"}

IsUndefined(obj, k) == k \notin NumberFields /\ obj[k] = Undef

\* mutant: an undefined value is written as null, as JSON.stringify does
\* inside arrays
stringifyObjectNulls(obj) ==
  [k \in DOMAIN obj |-> IF IsUndefined(obj, k) THEN Null ELSE obj[k]]

\* JSON.stringify drops the keys whose value is undefined
stringifyObject(obj) ==
  [k \in {f \in DOMAIN obj : ~IsUndefined(obj, f)} |-> obj[k]]

stringifyStore(st) ==
  LET keys == {"version", "profile", "products", "sync_history"}
                \cup (IF st.last_sync = Undef THEN {} ELSE {"last_sync"})
  IN  [k \in keys |->
         CASE k = "version"      -> st.version
           [] k = "profile"      -> stringifyObject(st.profile)
           [] k = "products"     -> [i \in 1..Len(st.products) |->
                                       stringifyObject(st.products[i])]
           [] k = "sync_history" -> st.sync_history
           [] k = "last_sync"    -> st.last_sync]

\* JSON.parse of a document save() wrote, read back through the store's fields
parseStore(doc) ==
  [version      |-> doc["version"],
   profile      |-> [name |-> Get(doc["profile"], "name")],
   products     |-> [i \in 1..Len(doc["products"]) |->
                       LocalProduct(doc["products"][i])],
   sync_history |-> doc["sync_history"],
   last_sync    |-> IF "last_sync" \in DOMAIN doc THEN doc["last_sync"] ELSE Undef]

\* the backing file: absent, not parseable, or a JSON document
Missing   == [kind |-> "missing"]
Corrupt   == [kind |-> "corrupt"]
Json(doc) == [kind |-> "json", doc |-> doc]

\* load(): the in-memory store afterwards
loadStore(st, f) ==
  IF f.kind = "missing" THEN st
  ELSE IF f.kind = "corrupt" THEN getDefaultStore
  ELSE parseStore(f.doc)

\* files holding valid JSON that is not a store document: the text null, and
\* an object without a products array
JsonNull   == [kind |-> "null"]
JsonObject == [kind |-> "object"]
ForeignFiles == {JsonNull, JsonObject}

\* load(): what this.store holds afterwards. JSON.parse succeeds on a foreign
\* file, so nothing is caught and the parsed value is assigned as it is
loadValue(st, f) ==
  IF f \in ForeignFiles THEN [shape |-> f.kind, store |-> getDefaultStore]
  ELSE [shape |-> "store", store |-> loadStore(st, f)]

\* this.store.products of the loaded value: reading it raises on null and
\* gives undefined on an object without the key
productsRaises(v)    == v.shape = "null"
productsUndefined(v) == v.shape = "object"

\* getProducts spreads products, createProduct calls products.push,
\* getSyncStats reads products.length, generateSyncManifest calls
\* products.filter: each raises a TypeError on undefined
getProductsRaises(v)          == productsRaises(v) \/ productsUndefined(v)
createProductRaises(v)        == productsRaises(v) \/ productsUndefined(v)
getSyncStatsRaises(v)         == productsRaises(v) \/ productsUndefined(v)
generateSyncManifestRaises(v) == productsRaises(v) \/ productsUndefined(v)

\* mutant: the write keeps the products the file holds and the store lacks
saveFileMerging(st) ==
  Json(stringifyStore(
    [st EXCEPT !.products =
       @ \o SelectSeq(IF file.kind = "json"
                        THEN parseStore(file.doc).products ELSE <<>>,
                      LAMBDA p : findIndex(st.products, p["local_id"]) = 0)]))

\* save(): the file after a write that succeeded
saveFile(st) == Json(stringifyStore(st))

\* ------------------------------------------------------------------ inputs
\* arguments of createProduct: the content fields, optionally a remote_id
\* (Omit<LocalProduct, 'local_id'|'status'|'created_at'|'updated_at'>)
ProductInputs ==
  {[name |-> "n1", description |-> "d1", category_id |-> "c1", price |-> "500",
    delivery_type |-> "download", delivery_payload |-> "p1",
    content_hash |-> "h1", file_size_bytes |-> "10"],
   [name |-> "n1", description |-> "d1", category_id |-> "c1", price |-> "500",
    delivery_type |-> "download", delivery_payload |-> "p1",
    content_hash |-> "h1", file_size_bytes |-> "10", remote_id |-> "r1"]}

\* arguments of updateProduct (Partial<LocalProduct>)
UpdateInputs ==
  {[price |-> "999"]}
    \cup {[remote_id |-> r] : r \in {"r1", Undef}}
    \cup {[local_id |-> 1, status |-> "synced"]}

\* what a SyncResult says about one local id
Dispositions == {"none", "created_r1", "updated", "error"}

RECURSIVE idsWith(_, _, _)
idsWith(d, wanted, i) ==
  IF i > MaxIds THEN <<>>
  ELSE (IF i \in DOMAIN d /\ d[i] \in wanted THEN <<i>> ELSE <<>>)
         \o idsWith(d, wanted, i + 1)

pairOf(d, i) ==
  [local_id |-> i, remote_id |-> IF d[i] = "created_r2" THEN "r2" ELSE "r1"]

\* the SyncResult that reports disposition d[i] for every id i
SyncResultOf(d, sid, ts) ==
  LET c == idsWith(d, {"created_r1", "created_r2"}, 1)
      u == idsWith(d, {"updated"}, 1)
      e == idsWith(d, {"error"}, 1)
  IN  [sync_id   |-> sid,
       timestamp |-> ts,
       results   |-> [created |-> [k \in 1..Len(c) |-> pairOf(d, c[k])],
                      updated |-> [k \in 1..Len(u) |-> pairOf(d, u[k])],
                      deleted |-> <<>>,
                      errors  |-> [k \in 1..Len(e) |->
                                     [local_id |-> e[k], error |-> "rejected"]]]]

\* the results a server can send about the ids issued so far
SyncResults ==
  {SyncResultOf(d, sid, ts) :
     d \in [1..(nextId - 1) -> Dispositions], sid \in SyncIds, ts \in ServerTimes}

\* the results a server can send about any one of the ids issued so far,
\* with either remote id and either server time
AnyDispositions == Dispositions \cup {"created_r2"}
AnyServerTimes  == ServerTimes \cup {"T2"}

AnySyncResults ==
  {SyncResultOf([i \in {id} |-> disp], sid, ts) :
     id \in 1..(nextId - 1), disp \in AnyDispositions, sid \in SyncIds,
     ts \in AnyServerTimes}

\* the requests the MCP server has in progress at once: run() handles every
\* stdin chunk in an async callback, so a second request starts while the
\* first one is suspended at an await
Requests == 1..2

\* SovereignMCPServer at construction: not initialized, no runtime; each
\* request's position in handleRequest; whether a manager has its fs module;
\* the manager a suspended save() writes
serverInit ==
  [initialized |-> FALSE,
   runtime |-> 0,
   created |-> 0,
   fs |-> [r \in Requests |-> FALSE],
   at |-> [r \in Requests |-> "idle"],
   saving |-> [r \in Requests |-> 0]]


\* ------------------------------------------------------------------ actions
TypeOK ==
  /\ now \in Times
  /\ nextId \in 1..(MaxIds + 1)
  /\ issued \subseteq LocalIds
  /\ pc \in {"idle", "resolving", "inflight", "returned"}
  /\ Len(store.products) <= MaxIds
  /\ Len(store.sync_history) <= MaxHistory
  /\ Len(other.products) <= MaxIds
  /\ server.created \in 0..2

Init ==
  /\ store = getDefaultStore
  /\ file = Missing
  /\ now = 0
  /\ nextId = 1
  /\ issued = {}
  /\ pc = "idle"
  /\ manifest = None
  /\ pushResult = None
  /\ other = getDefaultStore
  /\ server = serverInit

\* the same, over a backing file left by an earlier run that cannot be parsed
InitCorrupt ==
  /\ store = getDefaultStore
  /\ file = Corrupt
  /\ now = 0
  /\ nextId = 1
  /\ issued = {}
  /\ pc = "idle"
  /\ manifest = None
  /\ pushResult = None
  /\ other = getDefaultStore
  /\ server = serverInit

\* A clock reading is an input of the operation that takes it: t is what
\* new Date() returns, never earlier than the previous reading.
ClockReadings == {t \in Times : t >= now}

createProduct(product, t1, t2) ==
  /\ nextId <= MaxIds
  /\ t1 \in ClockReadings /\ t2 \in ClockReadings /\ t1 <= t2
  /\ store' = [store EXCEPT
                 !.products = Append(@, newProduct(product, generateId, t1, t2))]
  /\ now' = t2
  /\ nextId' = nextId + 1
  /\ issued' = issued \cup {generateId}
  /\ UNCHANGED <<file, pc, manifest, pushResult, other, server>>

\* createProduct with the id generateId() draws: calls in one millisecond
\* differ in the suffix only
createProductDrawn(product, r, t1, t2) ==
  /\ Len(store.products) < MaxIds
  /\ t1 \in ClockReadings /\ t2 \in ClockReadings /\ t1 <= t2
  /\ store' = [store EXCEPT
                 !.products = Append(@, newProduct(product,
                                                   generateIdDrawn(now, r), t1, t2))]
  /\ now' = t2
  /\ issued' = issued \cup {generateIdDrawn(now, r)}
  /\ UNCHANGED <<file, nextId, pc, manifest, pushResult, other, server>>

updateProduct(localId, updates, t) ==
  /\ t \in ClockReadings
  /\ store' = updateProductStore(store, localId, updates, t)
  /\ now' = IF findIndex(store.products, localId) = 0 THEN now ELSE t
  /\ UNCHANGED <<file, nextId, issued, pc, manifest, pushResult, other, server>>

deleteProduct(localId) ==
  /\ store' = deleteProductStore(store, localId)
  /\ UNCHANGED <<file, now, nextId, issued, pc, manifest, pushResult, other, server>>

markReady(localId, t) ==
  /\ t \in ClockReadings
  /\ store' = markReadyStore(store, localId, t)
  /\ now' = IF findIndex(store.products, localId) = 0 THEN now ELSE t
  /\ UNCHANGED <<file, nextId, issued, pc, manifest, pushResult, other, server>>

applySyncResultsCall(results) ==
  /\ Len(store.sync_history) < MaxHistory
  /\ store' = applySyncResults(store, results)
  /\ UNCHANGED <<file, now, nextId, issued, pc, manifest, pushResult, other, server>>

load ==
  /\ store' = loadStore(store, file)
  /\ UNCHANGED <<file, now, nextId, issued, pc, manifest, pushResult, other, server>>

\* save(): writeFileSync either succeeds or throws, and the throw is only logged
save ==
  /\ file' \in {saveFile(store), file}
  /\ UNCHANGED <<store, now, nextId, issued, pc, manifest, pushResult, other, server>>

\* a second LocalStoreManager constructed on the same storePath: its store
\* is `other`; ids come from the same clock, so the two managers draw
\* different ids
otherLoad ==
  /\ other' = loadStore(other, file)
  /\ UNCHANGED <<store, file, now, nextId, issued, pc, manifest, pushResult, server>>

otherCreateProduct(product, t1, t2) ==
  /\ nextId <= MaxIds
  /\ t1 \in ClockReadings /\ t2 \in ClockReadings /\ t1 <= t2
  /\ other' = [other EXCEPT
                 !.products = Append(@, newProduct(product, generateId, t1, t2))]
  /\ now' = t2
  /\ nextId' = nextId + 1
  /\ issued' = issued \cup {generateId}
  /\ UNCHANGED <<store, file, pc, manifest, pushResult, server>>

otherSave ==
  /\ file' \in {saveFile(other), file}
  /\ UNCHANGED <<store, other, now, nextId, issued, pc, manifest, pushResult, server>>


\* AgentHelperMCP.updateProduct: the tool arguments are copied into an object
\* literal with the keys name, description and price, each present whatever
\* the arguments hold (a missing argument gives the key the value undefined)
helperUpdates(args) ==
  [name        |-> Get(args, "name"),
   description |-> Get(args, "description"),
   price       |-> Get(args, "price")]

helperUpdateProductStore(st, args, t) ==
  updateProductStore(st, args["local_id"], helperUpdates(args), t)

\* arguments of the sovereign_update_product tool: some of name, description
\* and price
HelperArgs ==
  {[local_id |-> id, price |-> "999"] : id \in LocalIds}
    \cup {[local_id |-> id, name |-> "n1", description |-> "d1", price |-> "999"] :
            id \in LocalIds}


\* AgentRuntime.logout and setApiUrl assign this.client a new SovereignClient,
\* whose constructor makes a new LocalStoreManager on the same storePath:
\* runtime.client.localStore is from then on a manager holding the default
\* store, on which load() has not been called
runtimeLogout ==
  /\ store' = getDefaultStore
  /\ UNCHANGED <<file, now, nextId, issued, pc, manifest, pushResult, other, server>>

runtimeSetApiUrl ==
  /\ store' = getDefaultStore
  /\ UNCHANGED <<file, now, nextId, issued, pc, manifest, pushResult, other, server>>

\* importCredentials: an export string that does not parse, or whose version
\* is not 1.0, throws into the catch before the client is replaced
runtimeImportCredentials(valid) ==
  /\ store' = IF valid THEN getDefaultStore ELSE store
  /\ UNCHANGED <<file, now, nextId, issued, pc, manifest, pushResult, other, server>>

\* SovereignMCPServer.handleCreateProduct: createProduct on
\* runtime.client.localStore, then save()
handleCreateProduct(product, t1, t2) ==
  /\ nextId <= MaxIds
  /\ t1 \in ClockReadings /\ t2 \in ClockReadings /\ t1 <= t2
  /\ store' = [store EXCEPT
                 !.products = Append(@, newProduct(product, generateId, t1, t2))]
  /\ now' = t2
  /\ nextId' = nextId + 1
  /\ issued' = issued \cup {generateId}
  /\ file' \in {saveFile(store'), file}
  /\ UNCHANGED <<pc, manifest, pushResult, other, server>>


\* the store of the manager that request m's runtime made: this.runtime.client.localStore
managerStore(m) == IF m = 1 THEN store ELSE other

\* handleRequest up to the first await of initialize(): the initialized flag
\* is read, and when it is not set createRuntime is awaited
requestArrives(r) ==
  /\ server.at[r] = "idle"
  /\ server' = [server EXCEPT
                  !.at[r] = IF server.initialized THEN "handler" ELSE "creating"]
  /\ UNCHANGED <<store, file, now, nextId, issued, pc, manifest, pushResult, other>>

\* createRuntime resolves: this.runtime is assigned the request's new runtime,
\* whose client holds a new manager with the default store, and load() runs
\* up to its await
runtimeCreated(r) ==
  /\ server.at[r] = "creating"
  /\ server' = [server EXCEPT !.runtime = r,
                              !.created = @ + 1,
                              !.fs[r] = FALSE,
                              !.at[r] = "loading"]
  /\ store' = IF r = 1 THEN getDefaultStore ELSE store
  /\ other' = IF r = 2 THEN getDefaultStore ELSE other
  /\ UNCHANGED <<file, now, nextId, issued, pc, manifest, pushResult>>

\* load() resumes on the manager it was called on and reads the file
storeLoaded(r) ==
  /\ server.at[r] = "loading"
  /\ server' = [server EXCEPT !.fs[r] = TRUE, !.at[r] = "loaded"]
  /\ store' = IF r = 1 THEN loadStore(store, file) ELSE store
  /\ other' = IF r = 2 THEN loadStore(other, file) ELSE other
  /\ UNCHANGED <<file, now, nextId, issued, pc, manifest, pushResult>>

\* initialize() resumes after load: this.initialized = true
initializeDone(r) ==
  /\ server.at[r] = "loaded"
  /\ server' = [server EXCEPT !.initialized = TRUE, !.at[r] = "handler"]
  /\ UNCHANGED <<store, file, now, nextId, issued, pc, manifest, pushResult, other>>

\* a tool that changes nothing (tools/list, list products) answers
toolReads(r) ==
  /\ server.at[r] = "handler"
  /\ server' = [server EXCEPT !.at[r] = "idle"]
  /\ UNCHANGED <<store, file, now, nextId, issued, pc, manifest, pushResult, other>>

\* handleCreateProduct on the manager this.runtime refers to now: createProduct,
\* then save(), which writes at once when the manager has its fs module and
\* awaits the import first when it has not
toolCreateProduct(r, product, t) ==
  LET m == server.runtime
      created == [managerStore(m) EXCEPT
                    !.products = Append(@, newProduct(product, generateId, t, t))]
  IN /\ server.at[r] = "handler"
     /\ nextId <= MaxIds
     /\ store' = IF m = 1 THEN created ELSE store
     /\ other' = IF m = 2 THEN created ELSE other
     /\ nextId' = nextId + 1
     /\ issued' = issued \cup {generateId}
     /\ IF server.fs[m]
          THEN /\ file' \in {saveFile(created), file}
               /\ server' = [server EXCEPT !.at[r] = "idle"]
          ELSE /\ file' = file
               /\ server' = [server EXCEPT !.at[r] = "saving", !.saving[r] = m]
     /\ UNCHANGED <<now, pc, manifest, pushResult>>

\* the suspended save() resumes and writes its manager's store as it is now
saveWrites(r) ==
  LET m == server.saving[r]
  IN /\ server.at[r] = "saving"
     /\ file' \in {saveFile(managerStore(m)), file}
     /\ server' = [server EXCEPT !.fs[m] = TRUE, !.at[r] = "idle", !.saving[r] = 0]
     /\ UNCHANGED <<store, now, nextId, issued, pc, manifest, pushResult, other>>


\* -------------------------------------------------------- SovereignClient
\* what request() resolves to: its catch turns a failed fetch or a body that
\* is not JSON into NETWORK_ERROR; otherwise the server's JSON is passed on.
\* shape tells which parts of a SyncResult the JSON in data really has.
NetworkError ==
  [success |-> FALSE, data |-> None, error |-> "NETWORK_ERROR", shape |-> "none"]

ServerError ==
  [success |-> FALSE, data |-> None, error |-> "SERVER_ERROR", shape |-> "none"]

\* the results the push endpoint sends: about one product at a time
PushResults ==
  {r \in SyncResults :
     Len(r.results.created) + Len(r.results.updated) + Len(r.results.errors) <= 1}

PushResponses ==
  {NetworkError, ServerError}
    \cup {[success |-> TRUE, data |-> None, error |-> Undef, shape |-> "none"]}
    \cup {[success |-> TRUE, data |-> Some(r), error |-> Undef, shape |-> sh] :
            r \in PushResults, sh \in {"SyncResult", "no_updated"}}
    \cup {[success |-> ok, data |-> Some(r), error |-> Undef, shape |-> sh] :
            ok \in BOOLEAN, r \in {SyncResultOf(<<>>, "s1", "T1")},
            sh \in {"SyncResult", "no_results"}}

\* what getAgentInfo() resolves to: an agent record with an id, or a failure
AgentInfoResponses ==
  {[success |-> TRUE, id |-> a] : a \in AgentIds}
    \cup {[success |-> FALSE, id |-> Undef], [success |-> TRUE, id |-> Undef]}

NotAuthenticated ==
  [success |-> FALSE, data |-> None, error |-> "NOT_AUTHENTICATED", shape |-> "none"]

\* what the caller of push() observes: the ApiResponse it got back (its
\* success flag, its error code and whether it carries data), or a throw
Returned(response) ==
  Some([kind |-> "returned", success |-> response.success,
        error |-> response.error, hasData |-> response.data # None])
Threw ==
  Some([kind |-> "threw", success |-> FALSE, error |-> "TypeError", hasData |-> FALSE])

\* applySyncResults on the JSON the server sent: a missing results object
\* throws before the first loop, a missing updated list after the first loop
applySyncResultsThrows(shape) == shape # "SyncResult"

applySyncResultsJson(st, data, shape) ==
  IF shape = "SyncResult" THEN applySyncResults(st, data)
  ELSE IF shape = "no_updated"
    THEN [st EXCEPT !.products =
            applyCreated(@, data.results.created, data.timestamp)]
  ELSE st

\* push(agentId), up to the first await
pushCall(agentId, t) ==
  /\ pc = "idle"
  /\ t \in ClockReadings
  /\ IF Truthy(agentId)
       THEN /\ pc' = "inflight"
            /\ manifest' = Some(generateSyncManifest(store, agentId, t))
            /\ now' = t
       ELSE /\ pc' = "resolving"
            /\ UNCHANGED <<manifest, now, server>>
  /\ UNCHANGED <<store, file, nextId, issued, pushResult, other, server>>

\* mutant: without an agent id the manifest is built and sent all the same
pushAgentInfoSendsAnyway(info, t) ==
  /\ pc = "resolving"
  /\ t \in ClockReadings
  /\ pc' = "inflight"
  /\ manifest' = Some(generateSyncManifest(store, info.id, t))
  /\ now' = t
  /\ UNCHANGED <<store, file, nextId, issued, pushResult, other, server>>

\* push(), resumed when getAgentInfo() has resolved
pushAgentInfo(info, t) ==
  /\ pc = "resolving"
  /\ t \in ClockReadings
  /\ IF Truthy(info.id)
       THEN /\ pc' = "inflight"
            /\ manifest' = Some(generateSyncManifest(store, info.id, t))
            /\ now' = t
            /\ UNCHANGED pushResult
       ELSE /\ pc' = "returned"
            /\ pushResult' = Returned(NotAuthenticated)
            /\ UNCHANGED <<manifest, now, server>>
  /\ UNCHANGED <<store, file, nextId, issued, other, server>>

\* a response push() does not act on: success false, or no data
IsFailure(response) == ~(response.success /\ response.data # None)

\* mutant: the result is applied whenever the response carries data
pushOutcomeIgnoresSuccess(st, response) ==
  IF response.data # None
    THEN [store  |-> applySyncResultsJson(st, response.data[1], response.shape),
          saved  |-> ~applySyncResultsThrows(response.shape),
          result |-> IF applySyncResultsThrows(response.shape)
                       THEN Threw ELSE Returned(response)]
    ELSE [store |-> st, saved |-> FALSE, result |-> Returned(response)]

\* what push() does with the response of POST /sync/push: the store
\* afterwards, whether save() was called, and what the caller is handed
pushOutcome(st, response) ==
  IF response.success /\ response.data # None
    THEN [store  |-> applySyncResultsJson(st, response.data[1], response.shape),
          saved  |-> ~applySyncResultsThrows(response.shape),
          result |-> IF applySyncResultsThrows(response.shape)
                       THEN Threw ELSE Returned(response)]
    ELSE [store |-> st, saved |-> FALSE, result |-> Returned(response)]

\* push(), resumed when the POST /sync/push request has resolved; the write
\* of save() either succeeds or throws, and the throw is only logged
pushResponse(response) ==
  /\ pc = "inflight"
  /\ IsFailure(response) \/ Len(store.sync_history) < MaxHistory
  /\ pc' = "returned"
  /\ store' = pushOutcome(store, response).store
  /\ pushResult' = pushOutcome(store, response).result
  /\ IF pushOutcome(store, response).saved
       THEN file' \in {saveFile(store'), file}
       ELSE file' = file
  /\ manifest' = None
  /\ UNCHANGED <<now, nextId, issued, other, server>>

\* the caller of push() takes the value (or the exception) it was handed
pushReturned ==
  /\ pc = "returned"
  /\ pc' = "idle"
  /\ pushResult' = None
  /\ UNCHANGED <<store, file, now, nextId, issued, manifest, other, server>>

\* pull(since): one request, whose response is handed back as it is, a
\* failure like a success
PullResponses ==
  {NetworkError,
   [success |-> TRUE, data |-> Some("PullResult"), error |-> Undef, shape |-> "PullResult"]}

\* the value pull() hands to its caller
Pulled(response) ==
  Some([kind |-> "pulled", success |-> response.success,
        error |-> response.error, hasData |-> response.data # None])

\* mutant: a successful pull is recorded in sync_history and saved, as the
\* direction 'pull' of a history entry suggests
pullOutcomeRecordsHistory(st, response) ==
  IF response.success /\ response.data # None
    THEN [store  |-> [st EXCEPT
                        !.sync_history = Append(@, [id              |-> "s1",
                                                    direction       |-> "pull",
                                                    timestamp       |-> "T1",
                                                    products_synced |-> 0]),
                        !.last_sync    = "T1"],
          saved  |-> TRUE,
          result |-> Pulled(response)]
    ELSE [store |-> st, saved |-> FALSE, result |-> Pulled(response)]

\* what pull() does with the response of POST /sync/pull: the store
\* afterwards, whether save() was called, and what the caller is handed
pullOutcome(st, response) ==
  [store |-> st, saved |-> FALSE, result |-> Pulled(response)]

\* pull(), taken while no push of this flow is under way; the caller takes
\* the returned value as it takes the one of push()
pull(response) ==
  /\ pc = "idle"
  /\ response \in PullResponses
  /\ pc' = "returned"
  /\ store' = pullOutcome(store, response).store
  /\ pushResult' = pullOutcome(store, response).result
  /\ IF pullOutcome(store, response).saved
       THEN file' \in {saveFile(store'), file}
       ELSE file' = file
  /\ UNCHANGED <<now, nextId, issued, manifest, other, server>>

\* The store manager driven through its operations with every input its
\* types admit.  No branch of the code reads a timestamp, so the clock is
\* left standing here; SpecClock lets it run.
Next ==
  \/ \E product \in ProductInputs : createProduct(product, now, now)
  \/ \E localId \in LocalIds, updates \in UpdateInputs :
        updateProduct(localId, updates, now)
  \/ \E localId \in LocalIds : deleteProduct(localId)
  \/ \E localId \in LocalIds : markReady(localId, now)
  \/ \E results \in SyncResults : applySyncResultsCall(results)

Spec == Init /\ [][Next]_vars

\* The client: one flow that creates and edits products and loads and saves
\* the backing file, and a push or pull of another flow that interleaves with
\* it at its awaits.  Deletion is explored in Spec.
MaxSyncProducts   == 1
SyncProductInputs ==
  {[name |-> "n1", description |-> "d1", category_id |-> "c1", price |-> "500",
    delivery_type |-> "download"]}
SyncUpdateInputs  == {[price |-> "999"]}

NextSync ==
  \/ \E product \in SyncProductInputs :
        nextId <= MaxSyncProducts /\ createProduct(product, now, now)
  \/ \E localId \in LocalIds, updates \in SyncUpdateInputs :
        updateProduct(localId, updates, now)
  \/ \E localId \in LocalIds : markReady(localId, now)
  \/ load
  \/ save
  \/ \E agentId \in AgentIds \cup {Undef} : pushCall(agentId, now)
  \/ \E info \in AgentInfoResponses : pushAgentInfo(info, now)
  \/ \E response \in PushResponses : pushResponse(response)
  \/ pushReturned
  \/ \E response \in PullResponses : pull(response)

SpecSync == (Init \/ InitCorrupt) /\ [][NextSync]_vars

\* One flow of edits with the clock running: every operation that calls
\* new Date() may read a later time than the one before it.
NextClock ==
  \/ \E product \in ProductInputs, t1 \in Times, t2 \in Times :
        createProduct(product, t1, t2)
  \/ \E localId \in LocalIds, updates \in UpdateInputs, t \in Times :
        updateProduct(localId, updates, t)
  \/ \E localId \in LocalIds : deleteProduct(localId)
  \/ \E localId \in LocalIds, t \in Times : markReady(localId, t)

SpecClock == Init /\ [][NextClock]_vars

\* two managers sharing one backing file
NextShared ==
  \/ \E product \in SyncProductInputs : createProduct(product, now, now)
  \/ \E localId \in LocalIds, updates \in SyncUpdateInputs :
        updateProduct(localId, updates, now)
  \/ load
  \/ save
  \/ \E product \in SyncProductInputs : otherCreateProduct(product, now, now)
  \/ otherLoad
  \/ otherSave

SpecShared == (Init \/ InitCorrupt) /\ [][NextShared]_vars


\* the SyncResult of a server that accepts the manifest: every create entry
\* under created with a remote id, every update entry under updated
acknowledged(products) ==
  LET c == SelectSeq(products, LAMBDA e : e.action = "create")
      u == SelectSeq(products, LAMBDA e : e.action = "update")
  IN  [sync_id   |-> "s1",
       timestamp |-> "T1",
       results   |-> [created |-> [k \in 1..Len(c) |->
                                     [local_id |-> c[k].local_id, remote_id |-> "r1"]],
                      updated |-> [k \in 1..Len(u) |->
                                     [local_id |-> u[k].local_id,
                                      remote_id |-> u[k].remote_id]],
                      deleted |-> <<>>,
                      errors  |-> <<>>]]

\* sync_history grows with every applied result and no operation of the
\* sync reads it back: the repeated pushes keep its latest MaxHistory entries
latestHistory(st) ==
  [st EXCEPT !.sync_history =
     IF Len(@) > MaxHistory THEN SubSeq(@, Len(@) - MaxHistory + 1, Len(@)) ELSE @]

\* push(), resumed with the response of a server that accepted the manifest
pushAcknowledged ==
  /\ pc = "inflight"
  /\ LET response == [success |-> TRUE,
                      data    |-> Some(acknowledged(manifest[1].products)),
                      error   |-> Undef,
                      shape   |-> "SyncResult"]
     IN  /\ store' = latestHistory(pushOutcome(store, response).store)
         /\ pushResult' = pushOutcome(store, response).result
  /\ pc' = "returned"
  /\ file' \in {saveFile(store'), file}
  /\ manifest' = None
  /\ UNCHANGED <<now, nextId, issued, other, server>>

LiveUpdateInputs == {[price |-> "999"], [remote_id |-> Undef]}

\* repeated pushes against a service that answers with failures and,
\* again and again, with the acknowledgement of the whole manifest
NextLive ==
  \/ \E product \in SyncProductInputs :
        nextId <= MaxSyncProducts /\ createProduct(product, now, now)
  \/ \E localId \in LocalIds, updates \in LiveUpdateInputs :
        updateProduct(localId, updates, now)
  \/ \E localId \in LocalIds : deleteProduct(localId)
  \/ \E agentId \in AgentIds \cup {Undef} : pushCall(agentId, now)
  \/ \E info \in AgentInfoResponses : pushAgentInfo(info, now)
  \/ \E response \in PushResponses : pushResponse(response)
  \/ pushAcknowledged
  \/ pushReturned

\* the caller takes each result it is handed, and a service that is asked
\* again and again eventually accepts a manifest
SpecLive ==
  /\ Init
  /\ [][NextLive]_vars
  /\ WF_vars(pushReturned)
  /\ SF_vars(pushAcknowledged)


\* the MCP server's store as the runtime reaches it
NextRuntime ==
  \/ \E product \in ProductInputs : handleCreateProduct(product, now, now)
  \/ \E localId \in LocalIds, updates \in SyncUpdateInputs :
        updateProduct(localId, updates, now)
  \/ load
  \/ save
  \/ runtimeLogout
  \/ runtimeSetApiUrl
  \/ \E valid \in BOOLEAN : runtimeImportCredentials(valid)

SpecRuntime == Init /\ [][NextRuntime]_vars


\* the MCP server handling concurrent requests
NextServer ==
  \E r \in Requests :
    \/ requestArrives(r)
    \/ runtimeCreated(r)
    \/ storeLoaded(r)
    \/ initializeDone(r)
    \/ toolReads(r)
    \/ \E product \in SyncProductInputs : toolCreateProduct(r, product, now)
    \/ saveWrites(r)

SpecServer == Init /\ [][NextServer]_vars


\* The store manager within one millisecond, the ids drawn as generateId()
\* draws them.
IssuedSyncResults ==
  {SyncResultOf(d, sid, ts) :
     d \in [issued -> Dispositions], sid \in SyncIds, ts \in ServerTimes}

NextIds ==
  \/ \E product \in ProductInputs, r \in RandomSuffixes :
        createProductDrawn(product, r, now, now)
  \/ \E localId \in LocalIds, updates \in UpdateInputs :
        updateProduct(localId, updates, now)
  \/ \E localId \in LocalIds : deleteProduct(localId)
  \/ \E localId \in LocalIds : markReady(localId, now)
  \/ \E results \in IssuedSyncResults : applySyncResultsCall(results)

SpecIds == Init /\ [][NextIds]_vars

\* ------------------------------------------------------------------ claims
\* the product with this local id (used where one exists)
productOf(st, localId) == st.products[findIndex(st.products, localId)]

hasProduct(st, localId) == findIndex(st.products, localId) # 0

idsOf(products) == {products[i]["local_id"] : i \in 1..Len(products)}

IsPending(p) == p["status"] = "ready" \/ p["status"] = "modified"

\* the manifest entries about one local id
entriesFor(st, localId) ==
  SelectSeq(manifestProducts(st), LAMBDA e : e.local_id = localId)

\* C1: markReady(local_id) on an existing product whose status is draft and
\* that has no remote_id sets that product's status to ready, so that the
\* product is then returned by getUnsyncedProducts.
C1_MarkReadySetsReady ==
  \A i \in 1..Len(store.products) :
    LET p     == store.products[i]
        after == markReadyStore(store, p["local_id"], now)
    IN  (p["status"] = "draft" /\ ~Truthy(p["remote_id"]))
          => /\ productOf(after, p["local_id"])["status"] = "ready"
             /\ p["local_id"] \in idsOf(getUnsyncedProducts(after))

\* C2: starting from an empty store, createProduct(A) -> markReady(A) ->
\* generateSyncManifest yields a manifest with exactly one entry, for A, with
\* action create; and after applySyncResults with a result whose created list
\* is {A -> r1}, A has status synced and remote_id r1.
C2_ResultForA(localId) ==
  [sync_id   |-> "s1",
   timestamp |-> "T1",
   results   |-> [created |-> <<[local_id |-> localId, remote_id |-> "r1"]>>,
                  updated |-> <<>>, deleted |-> <<>>, errors |-> <<>>]]

C2_FullFlowCreates ==
  (store.products = <<>> /\ nextId <= MaxIds) =>
    \A product \in SyncProductInputs :
      LET created  == [store EXCEPT !.products =
                         Append(@, newProduct(product, generateId, now, now))]
          ready    == markReadyStore(created, generateId, now)
          entries  == manifestProducts(ready)
          synced   == applySyncResults(ready, C2_ResultForA(generateId))
      IN  /\ Len(entries) = 1
          /\ entries[1].local_id = generateId
          /\ entries[1].action = "create"
          /\ productOf(synced, generateId)["status"] = "synced"
          /\ productOf(synced, generateId)["remote_id"] = "r1"

\* C3: for a product A that is synced with a remote_id,
\* updateProduct(A, {price: 999}) sets A's status to modified, and the next
\* generateSyncManifest contains exactly one update action for A, whose data
\* carries price 999 and whose remote_id is A's remote_id.
C3_EditOfSyncedIsSentAsUpdate ==
  \A i \in 1..Len(store.products) :
    LET A       == store.products[i]
        after   == updateProductStore(store, A["local_id"], [price |-> "999"], now)
        entries == entriesFor(after, A["local_id"])
    IN  (A["status"] = "synced" /\ Truthy(A["remote_id"]))
          => /\ productOf(after, A["local_id"])["status"] = "modified"
             /\ Len(entries) = 1
             /\ entries[1].action = "update"
             /\ entries[1].data
                  = Some([k \in ContentFields |->
                            IF k = "price" THEN "999" ELSE A[k]])
             /\ entries[1].remote_id = A["remote_id"]

\* C3 witness: a product with a remote_id that was edited to price 999 and is
\* reported as an update carrying that price
C3_Witness ==
  \E i \in 1..Len(store.products) :
    /\ store.products[i]["status"] = "modified"
    /\ Truthy(store.products[i]["remote_id"])
    /\ store.products[i]["synced_at"] # Undef
    /\ store.products[i]["price"] = "999"
    /\ \E k \in 1..Len(manifestProducts(store)) :
         /\ manifestProducts(store)[k].local_id = store.products[i]["local_id"]
         /\ manifestProducts(store)[k].action = "update"

\* C4: lifecycle monotonicity: every product without a remote_id has status
\* draft or ready, and every product with a remote_id has status synced or
\* modified.
C4_LifecycleMonotonicity ==
  \A i \in 1..Len(store.products) :
    LET p == store.products[i]
    IN  IF Truthy(p["remote_id"])
          THEN p["status"] \in {"synced", "modified"}
          ELSE p["status"] \in {"draft", "ready"}

\* C5: generateSyncManifest contains no entry for any product whose status is
\* draft.
C5_NoDraftInManifest ==
  \A i \in 1..Len(store.products) :
    store.products[i]["status"] = "draft"
      => entriesFor(store, store.products[i]["local_id"]) = <<>>

\* C5 witness: a draft product next to a product the manifest does list
C5_Witness ==
  /\ \E i \in 1..Len(store.products) : store.products[i]["status"] = "draft"
  /\ Len(manifestProducts(store)) > 0

\* C6: generateSyncManifest assigns create to every ready product, update to
\* every modified product and unchanged to every other non-draft product.
C6_ManifestActionByStatus ==
  \A i \in 1..Len(store.products) :
    LET p       == store.products[i]
        entries == entriesFor(store, p["local_id"])
    IN  p["status"] # "draft"
          => /\ Len(entries) = 1
             /\ entries[1].action =
                  (CASE p["status"] = "ready"    -> "create"
                     [] p["status"] = "modified" -> "update"
                     [] OTHER                    -> "unchanged")

\* C7: the local_ids returned by getUnsyncedProducts are exactly the local_ids
\* whose manifest entry has action create or update.
C7_UnsyncedEqualsActionable ==
  idsOf(getUnsyncedProducts(store))
    = {e.local_id : e \in {manifestProducts(store)[k] :
                             k \in {j \in 1..Len(manifestProducts(store)) :
                                      manifestProducts(store)[j].action
                                        \in {"create", "update"}}}}
\* the local ids a SyncResult lists under created or updated, and under errors
ackedIds(results) ==
  {results.results.created[k].local_id : k \in 1..Len(results.results.created)}
    \cup {results.results.updated[k].local_id : k \in 1..Len(results.results.updated)}

erroredIds(results) ==
  {results.results.errors[k].local_id : k \in 1..Len(results.results.errors)}

pendingIds(st) == idsOf(getUnsyncedProducts(st))

\* C10: when applySyncResults is given a result that lists some pending
\* products in created/updated and another pending product only in errors,
\* exactly the non-errored ones become synced; the errored product keeps its
\* status and all its fields and is returned by the next getUnsyncedProducts.
C10_PartialFailureIsolation ==
  [](Cardinality(pendingIds(store)) >= 2 =>
       \A results \in SyncResults :
         LET after == applySyncResults(store, results)
         IN  (/\ pendingIds(store) \cap ackedIds(results) # {}
              /\ (pendingIds(store) \cap erroredIds(results)) \ ackedIds(results) # {})
               => \A i \in 1..Len(store.products) :
                    LET p == store.products[i]
                    IN  IsPending(p) =>
                          /\ (p["local_id"] \in ackedIds(results)
                                <=> after.products[i]["status"] = "synced")
                          /\ (p["local_id"] \in erroredIds(results) \ ackedIds(results)
                                => /\ after.products[i] = p
                                   /\ p["local_id"] \in pendingIds(after)))

\* C10 witness: a result was applied that left one product synced and another
\* product pending
C10_Witness ==
  /\ Len(store.sync_history) = 1
  /\ store.sync_history[1].products_synced = 1
  /\ \E i, j \in 1..Len(store.products) :
       /\ store.products[i]["status"] = "synced"
       /\ store.products[i]["synced_at"] = store.sync_history[1].timestamp
       /\ store.products[j]["status"] = "modified"
       /\ store.products[j]["synced_at"] = Undef

\* C8: when push() ends in a transport failure or a server response with
\* success=false (or without a SyncResult), nothing of the in-memory store is
\* changed, the backing file is not written, and push returns a structured
\* failure value.
C8_FailedPushLeavesStore ==
  pc = "inflight" =>
    \A response \in {r \in PushResponses : IsFailure(r)} :
      LET outcome == pushOutcome(store, response)
      IN  /\ outcome.store = store
          /\ ~outcome.saved
          /\ outcome.result = Returned(response)
          /\ ~(outcome.result[1].success /\ outcome.result[1].hasData)

\* C8 witness: a push over a store that holds a product and a saved file came
\* back with a network error, and store and file are what they were
C8_Witness ==
  /\ pc = "returned"
  /\ pushResult = Returned(NetworkError)
  /\ store.products # <<>>
  /\ file = saveFile(store)

\* C9: when push() returns a successful response containing a SyncResult,
\* that result has been applied to the in-memory store and persisted: the
\* backing file's document equals the in-memory store with the result applied.
C9_SuccessfulPushIsPersisted ==
  [][(pc = "inflight" /\ pc' = "returned") =>
       \A response \in {r \in PushResponses : ~IsFailure(r)} :
         (pushResponse(response) /\ pushResult' = Returned(response))
           => /\ store' = applySyncResults(store, response.data[1])
              /\ file' = saveFile(store')]_vars

\* C11: for every store and every successful SyncResult R, applying R twice
\* with applySyncResults leaves the store in the same state as applying R
\* once.
C11_IdempotentReapplication ==
  \A results \in AnySyncResults :
    applySyncResults(applySyncResults(store, results), results)
      = applySyncResults(store, results)

\* C11 as amended: the second application of R leaves every product and
\* last_sync as the first left them, and appends one more sync_history entry
\* equal to the first one.
C11_ReapplicationKeepsProducts ==
  [](\A results \in AnySyncResults :
       LET once  == applySyncResults(store, results)
           twice == applySyncResults(once, results)
       IN  /\ twice.products = once.products
           /\ twice.last_sync = once.last_sync
           /\ twice.profile = once.profile
           /\ twice.sync_history
                = Append(once.sync_history, once.sync_history[Len(once.sync_history)]))

\* C11 witness: a result has been applied that created a product remotely,
\* and a result that lists this product under created can arrive again
C11_Witness ==
  /\ store.sync_history # <<>>
  /\ \E i \in 1..Len(store.products) :
       /\ store.products[i]["status"] = "synced"
       /\ store.products[i]["remote_id"] = "r1"
       /\ store.products[i]["synced_at"] = store.last_sync
       /\ \E results \in AnySyncResults :
            /\ Len(results.results.created) > 0
            /\ results.results.created[1]
                 = [local_id |-> store.products[i]["local_id"], remote_id |-> "r1"]

\* C12: once a product has a remote_id, no later operation (updateProduct with
\* any partial fields, markReady, applySyncResults with any result) changes or
\* removes that remote_id.
C12_RemoteIdNeverChanges ==
  [][\A localId \in idsOf(store.products) :
       (Truthy(productOf(store, localId)["remote_id"])
          /\ hasProduct(store', localId))
         => productOf(store', localId)["remote_id"]
              = productOf(store, localId)["remote_id"]]_vars

\* the local ids a result lists under created
createdIds(results) ==
  {results.results.created[k].local_id : k \in 1..Len(results.results.created)}

\* C13: a product has a remote_id only if an applied SyncResult listed its
\* local_id under created: whenever a step leaves a product with a remote_id
\* it did not have before, the step is an applySyncResults whose result lists
\* the product under created.
C13_RemoteIdOnlyFromCreateSync ==
  [][\A localId \in idsOf(store'.products) :
       Truthy(productOf(store', localId)["remote_id"])
         => \/ /\ hasProduct(store, localId)
               /\ productOf(store, localId)["remote_id"]
                    = productOf(store', localId)["remote_id"]
            \/ \E results \in SyncResults :
                 /\ store' = applySyncResults(store, results)
                 /\ localId \in createdIds(results)]_vars

\* C14: updateProduct(local_id, updates) never changes the local_id of the
\* targeted product, even when updates itself contains a different local_id;
\* the returned record and the stored record keep the original local_id.
C14_UpdateKeepsLocalId ==
  \A localId \in idsOf(store.products), updates \in UpdateInputs :
    LET after    == updateProductStore(store, localId, updates, now)
        returned == updateProductReturn(store, localId, updates, now)
    IN  /\ returned # None
        /\ returned[1]["local_id"] = localId
        /\ Len(after.products) = Len(store.products)
        /\ \A i \in 1..Len(store.products) :
             after.products[i]["local_id"] = store.products[i]["local_id"]
        /\ productOf(after, localId) = returned[1]

\* C14 witness: a product other than product 1 has been edited, and an update
\* that names local_id 1 can be applied to it
C14_Witness ==
  /\ hasProduct(store, 2)
  /\ productOf(store, 2)["status"] = "modified"
  /\ \E updates \in UpdateInputs :
       "local_id" \in DOMAIN updates /\ updates["local_id"] # 2

\* C15: after any sequence of createProduct, updateProduct, markReady,
\* deleteProduct and applySyncResults calls, no two products in the store
\* share a local_id, and a local_id of a deleted product is never issued
\* again by a later createProduct.
C15_LocalIdsUniqueNeverReused ==
  [][/\ \A i, j \in 1..Len(store'.products) :
          i # j => store'.products[i]["local_id"] # store'.products[j]["local_id"]
     /\ Len(store'.products) > Len(store.products)
          => store'.products[Len(store'.products)]["local_id"] \notin issued]_vars

C17_LoadFallsBackToDefault ==
  file.kind \in {"missing", "corrupt"}
    => /\ loadStore(store, file) = getDefaultStore
       /\ loadStore(store, file).version = "1.0.0"
       /\ loadStore(store, file).products = <<>>
       /\ loadStore(store, file).sync_history = <<>>

\* C18: pull() leaves the whole local store unchanged whether it succeeds or
\* fails: no field of any product, neither sync_history nor last_sync is
\* modified, and the backing file is not written.
C18_PullLeavesStore ==
  pc = "idle" =>
    \A response \in PullResponses :
      LET outcome == pullOutcome(store, response)
      IN  /\ outcome.store = store
          /\ outcome.store.products = store.products
          /\ outcome.store.sync_history = store.sync_history
          /\ outcome.store.last_sync = store.last_sync
          /\ ~outcome.saved
          /\ outcome.result = Pulled(response)

\* C18 witness: a pull over a saved store that holds a product has returned
\* its data
C18_Witness ==
  /\ pc = "returned"
  /\ pushResult # None
  /\ pushResult[1].kind = "pulled"
  /\ pushResult[1].success /\ pushResult[1].hasData
  /\ store.products # <<>>
  /\ file = saveFile(store)

\* C19: updateProduct, markReady and deleteProduct called with a local_id that
\* is not in the store return the not-found signal (null, null, false), do not
\* raise, and leave every product, the profile and sync_history unchanged.
C19_UnknownIdIsNotFound ==
  \A localId \in LocalIds \ idsOf(store.products) :
    /\ \A updates \in UpdateInputs :
         /\ updateProductReturn(store, localId, updates, now) = None
         /\ updateProductStore(store, localId, updates, now) = store
    /\ markReadyReturn(store, localId, now) = None
    /\ markReadyStore(store, localId, now) = store
    /\ deleteProductReturn(store, localId) = FALSE
    /\ deleteProductStore(store, localId) = store

\* C19 witness: product 1 was issued and deleted, another product and a
\* sync_history entry are in the store
C19_Witness ==
  /\ 1 \in issued
  /\ ~hasProduct(store, 1)
  /\ hasProduct(store, 2)
  /\ store.sync_history # <<>>

\* C20: updateProduct on an existing product sets its status to modified if
\* and only if the product already has a remote_id; for a product without a
\* remote_id the status after the call equals the status before the call,
\* whatever fields are edited.
C20_EditMarksModifiedIffRemote ==
  [](\A localId \in idsOf(store.products), updates \in UpdateInputs :
       LET before   == productOf(store, localId)
           returned == updateProductReturn(store, localId, updates, now)
       IN  /\ returned # None
           /\ Truthy(before["remote_id"]) => returned[1]["status"] = "modified"
           /\ ~Truthy(before["remote_id"]) => returned[1]["status"] = before["status"]
           /\ productOf(updateProductStore(store, localId, updates, now), localId)
                = returned[1])

\* C20 witness: an edited draft without a remote_id is still draft, next to an
\* edited product with a remote_id that is modified
C20_Witness ==
  \E i, j \in 1..Len(store.products) :
    /\ store.products[i]["status"] = "draft"
    /\ ~Truthy(store.products[i]["remote_id"])
    /\ store.products[i]["price"] = "999"
    /\ store.products[j]["status"] = "modified"
    /\ Truthy(store.products[j]["remote_id"])
    /\ store.products[j]["price"] = "999"

\* C21: push() never throws to its caller: for every outcome of the remote
\* call (network error, non-JSON body, success=false, success=true with a
\* missing or malformed SyncResult) it returns a structured result value.
C21_PushNeverThrows ==
  pushResult # None => pushResult[1].kind # "threw"

\* the entries of a manifest's product list about one local id
entriesOf(products, localId) ==
  SelectSeq(products, LAMBDA e : e.local_id = localId)

\* C22: if a push fails at transport level, or its SyncResult lists product P
\* only under errors, then with no intervening local mutation the manifest
\* generated by the next push contains the same action and the same data for
\* P as the manifest of the failed push.
C22_RetryManifestIsSame ==
  (pc = "inflight" /\ manifest[1].products = manifestProducts(store)) =>
    \A response \in PushResponses :
      LET next == manifestProducts(pushOutcome(store, response).store)
      IN  /\ IsFailure(response) => next = manifest[1].products
          /\ ~IsFailure(response) =>
               \A P \in erroredIds(response.data[1]) \ ackedIds(response.data[1]) :
                 entriesOf(next, P) = entriesOf(manifest[1].products, P)

\* C22 witness: a push whose manifest reported product 1 as an update came
\* back with a network error, and the store still reports the same update
C22_Witness ==
  /\ pc = "returned"
  /\ pushResult = Returned(NetworkError)
  /\ Len(entriesFor(store, 1)) = 1
  /\ entriesFor(store, 1)[1].action = "update"
  /\ entriesFor(store, 1)[1].data[1]["price"] = "999"

\* C23: two generateSyncManifest calls on the same store state produce the
\* same products list and the same checksum, independently of the manifest
\* timestamp and of the agent_id passed.
C23_ChecksumDeterminism ==
  [](LET first  == generateSyncManifest(store, "a1", now)
         second == generateSyncManifest(store, "a2", MaxTime)
     IN  /\ second.products = first.products
         /\ second.checksum = first.checksum
         /\ first.agent_id = "a1" /\ second.agent_id = "a2"
         /\ first.timestamp = now /\ second.timestamp = MaxTime)

\* C23 witness: a store whose manifest reports an update, so that the
\* checksum is taken over an entry with data
C23_Witness ==
  /\ \E k \in 1..Len(manifestProducts(store)) :
       manifestProducts(store)[k].action = "update"
  /\ generateSyncManifest(store, "a1", now).checksum # generateChecksum(<<>>)
  /\ MaxTime # now

\* C24: in every manifest, an entry carries a data snapshot if and only if its
\* action is create or update, and that snapshot equals the product's current
\* name, description, category_id, price, delivery_type, delivery_payload,
\* content_hash and file_size_bytes at the time of generation; unchanged
\* entries carry no data.
C24_SnapshotIffActionable ==
  \A k \in 1..Len(manifestProducts(store)) :
    LET e == manifestProducts(store)[k]
        p == productOf(store, e.local_id)
    IN  /\ e.data # None <=> e.action \in {"create", "update"}
        /\ e.action = "unchanged" => e.data = None
        /\ e.data # None =>
             /\ DOMAIN e.data[1] = ContentFields
             /\ \A f \in ContentFields : e.data[1][f] = p[f]

\* C24 witness: a manifest with an update entry carrying the edited price and
\* an unchanged entry
C24_Witness ==
  \E j, k \in 1..Len(manifestProducts(store)) :
    /\ manifestProducts(store)[j].action = "update"
    /\ manifestProducts(store)[j].data[1]["price"] = "999"
    /\ manifestProducts(store)[j].data[1]["content_hash"] = "h1"
    /\ manifestProducts(store)[k].action = "unchanged"

C26_SyncedHoldsSentContent ==
  pc = "inflight" =>
    \A response \in PushResponses :
      ~IsFailure(response) =>
        LET after == pushOutcome(store, response).store
        IN  \A k \in 1..Len(manifest[1].products) :
              LET e == manifest[1].products[k]
              IN  ( /\ e.data # None
                    /\ e.local_id \in ackedIds(response.data[1])
                    /\ hasProduct(after, e.local_id)
                    /\ productOf(after, e.local_id)["status"] = "synced" )
                  => \A f \in ContentFields :
                       e.data[1][f] = productOf(after, e.local_id)[f]

\* C27: two store managers bound to the same backing file have no mutual
\* exclusion: whenever one of them writes the file, the file afterwards holds
\* exactly the in-memory store of that manager, and every product that only
\* the other manager holds is absent from it (last write wins).
C27_LastWriteWins ==
  [][file' # file =>
       /\ file' = saveFile(store) \/ file' = saveFile(other)
       /\ file' = saveFile(other) =>
            /\ loadStore(getDefaultStore, file') = other
            /\ \A P \in idsOf(store.products) \ idsOf(other.products) :
                 ~hasProduct(loadStore(getDefaultStore, file'), P)
       /\ file' = saveFile(store) =>
            /\ loadStore(getDefaultStore, file') = store
            /\ \A P \in idsOf(other.products) \ idsOf(store.products) :
                 ~hasProduct(loadStore(getDefaultStore, file'), P)]_vars

\* C27 witness: each manager holds a product the other lacks, and the file
\* holds the second manager's store without the first manager's product
C27_Witness ==
  /\ file = saveFile(other)
  /\ file # saveFile(store)
  /\ idsOf(store.products) \ idsOf(other.products) # {}
  /\ idsOf(other.products) \ idsOf(store.products) # {}
  /\ \A P \in idsOf(store.products) :
       ~hasProduct(loadStore(getDefaultStore, file), P)

C29_HistoryAppendOnly ==
  /\ [](/\ \A results \in AnySyncResults :
             LET before == store.sync_history
                 after  == applySyncResults(store, results).sync_history
             IN  /\ Len(after) = Len(before) + 1
                 /\ SubSeq(after, 1, Len(before)) = before
                 /\ after[Len(after)].direction = "push"
                 /\ after[Len(after)].id = results.sync_id
                 /\ after[Len(after)].timestamp = results.timestamp
                 /\ after[Len(after)].products_synced
                      = Cardinality(ackedIds(results))
        /\ \A localId \in LocalIds :
             /\ \A updates \in UpdateInputs :
                  updateProductStore(store, localId, updates, now).sync_history
                    = store.sync_history
             /\ markReadyStore(store, localId, now).sync_history
                  = store.sync_history
             /\ deleteProductStore(store, localId).sync_history
                  = store.sync_history)
  /\ [][/\ Len(store'.sync_history) >= Len(store.sync_history)
        /\ SubSeq(store'.sync_history, 1, Len(store.sync_history))
             = store.sync_history]_vars

\* C29 witness: one sync that acknowledged one product is in the history, and
\* the product was edited after it
C29_Witness ==
  /\ Len(store.sync_history) = 1
  /\ store.sync_history[1].direction = "push"
  /\ store.sync_history[1].products_synced = 1
  /\ \E k \in 1..Len(store.products) :
       /\ store.products[k]["status"] = "modified"
       /\ Truthy(store.products[k]["synced_at"])

\* C30: createProduct always succeeds without network access and adds exactly
\* one new product to the store with status draft and created_at equal to
\* updated_at, leaving every existing product unchanged.
C30_CreateAddsOneDraft ==
  [][nextId' # nextId =>
       /\ Len(store'.products) = Len(store.products) + 1
       /\ SubSeq(store'.products, 1, Len(store.products)) = store.products
       /\ LET added == store'.products[Len(store'.products)]
          IN  /\ added["status"] = "draft"
              /\ added["local_id"] \notin idsOf(store.products)
              /\ added["created_at"] = added["updated_at"]
       /\ UNCHANGED <<file, pc, manifest, pushResult, server>>]_vars

\* updates that carry synced_at, which Partial<LocalProduct> admits
SyncedAtUpdates == {[synced_at |-> "T2"], [price |-> "999", synced_at |-> "T2"]}

\* C31: a product's synced_at changes only when applySyncResults processes a
\* result that names its local_id under created or updated; updateProduct,
\* markReady and a result naming the product only under errors (or not at
\* all) leave synced_at unchanged.
C31_SyncedAtOnlyBySync ==
  \A k \in 1..Len(store.products) :
    LET p == store.products[k]
        P == p["local_id"]
    IN  /\ \A updates \in UpdateInputs \cup SyncedAtUpdates :
             updateProductStore(store, P, updates, now).products[k]["synced_at"]
               = p["synced_at"]
        /\ markReadyStore(store, P, now).products[k]["synced_at"] = p["synced_at"]
        /\ \A results \in AnySyncResults :
             P \notin ackedIds(results) =>
               applySyncResults(store, results).products[k]["synced_at"]
                 = p["synced_at"]

\* a step that edits or removes product P: its record changes otherwise than
\* by an acknowledgement, or it leaves the store
Edited(P) ==
  /\ hasProduct(store, P)
  /\ \/ ~hasProduct(store', P)
     \/ /\ productOf(store', P) # productOf(store, P)
        /\ productOf(store', P)["status"] # "synced"

Pending(P) == hasProduct(store, P) /\ IsPending(productOf(store, P))

\* C32: liveness of publication: when pushes are repeated (a manifest is in
\* flight again and again) and the remote service eventually answers with
\* success and acknowledges every create/update entry, every product that is ready or modified and
\* from some point on neither edited nor deleted is eventually synced, that
\* is, does not stay ready or modified for ever.
C32_PendingEventuallySynced ==
  \A P \in LocalIds :
    ([]<>(pc = "inflight") /\ <>[][~Edited(P)]_vars) => <>[]~Pending(P)

\* C33: after a push that returns success with a SyncResult acknowledging
\* every create/update entry of the manifest it sent, and with no local
\* mutation during the push, getUnsyncedProducts() is empty and the next
\* manifest contains only unchanged entries.
C33_AcknowledgedPushLeavesNothingPending ==
  (pc = "inflight" /\ manifest[1].products = manifestProducts(store)) =>
    LET response == [success |-> TRUE,
                     data    |-> Some(acknowledged(manifest[1].products)),
                     error   |-> Undef,
                     shape   |-> "SyncResult"]
        after    == pushOutcome(store, response).store
    IN  /\ pushOutcome(store, response).result = Returned(response)
        /\ getUnsyncedProducts(after) = <<>>
        /\ \A k \in 1..Len(manifestProducts(after)) :
             manifestProducts(after)[k].action = "unchanged"

\* C34: applySyncResults never adds or removes products: for every result the
\* local_ids in the store, in their order, are the same before and after;
\* pairs naming a local_id that is not in the store and the result's deleted
\* list are ignored, and products named nowhere in created/updated keep all
\* their fields.
C34_ApplyKeepsProductSet ==
  [](\A results \in AnySyncResults, deleted \in {<<>>, <<1>>, <<2, 1>>} :
       LET sent  == [results EXCEPT !.results.deleted = deleted]
           after == applySyncResults(store, sent)
       IN  /\ Len(after.products) = Len(store.products)
           /\ \A k \in 1..Len(store.products) :
                /\ after.products[k]["local_id"] = store.products[k]["local_id"]
                /\ store.products[k]["local_id"] \notin ackedIds(sent)
                     => after.products[k] = store.products[k]
           /\ ackedIds(sent) \cap idsOf(store.products) = {}
                => after.products = store.products
           /\ after.products = applySyncResults(store, results).products)

\* C34 witness: product 1 was deleted, product 2 is in the store, and a result
\* acknowledging one product has been applied without product 2 being synced
C34_Witness ==
  /\ 1 \in issued
  /\ ~hasProduct(store, 1)
  /\ hasProduct(store, 2)
  /\ productOf(store, 2)["synced_at"] = Undef
  /\ Len(store.sync_history) = 1
  /\ store.sync_history[1].products_synced = 1

\* C35: a partial update merges only the supplied fields: the helper's
\* sovereign_update_product called with only some of name/description/price
\* leaves the product's other content fields at their previous values and
\* gives the supplied ones their new values.
C35_PartialUpdateMergesSupplied ==
  \A args \in HelperArgs :
    hasProduct(store, args["local_id"]) =>
      LET before == productOf(store, args["local_id"])
          after  == productOf(helperUpdateProductStore(store, args, now),
                              args["local_id"])
      IN  \A f \in ContentFields :
            after[f] = IF f \in DOMAIN args THEN args[f] ELSE before[f]

\* C36: after load() returns, for any content of the backing file (the file
\* the store was saved to, or valid JSON that is not a store document, such
\* as null or an object without a products array), the in-memory store is
\* well-formed: getProducts, createProduct, getSyncStats and
\* generateSyncManifest run without raising.
C36_LoadedStoreIsWellFormed ==
  \A f \in {file} \cup ForeignFiles :
    LET v == loadValue(store, f)
    IN  /\ ~getProductsRaises(v)
        /\ ~createProductRaises(v)
        /\ ~getSyncStatsRaises(v)
        /\ ~generateSyncManifestRaises(v)

\* the local ids of the products a file holds
idsInFile(f) == IF f.kind = "json" THEN idsOf(parseStore(f.doc).products) ELSE {}

\* C37: the local products reachable through runtime.client.localStore are
\* preserved across AgentRuntime.logout, setApiUrl and importCredentials:
\* these operations do not drop products held in memory, so a later
\* create-and-save through the MCP server does not overwrite the backing file
\* with a store that lost the products the file held.
C37_ClientReplacementKeepsProducts ==
  [][/\ (runtimeLogout \/ runtimeSetApiUrl
           \/ \E valid \in BOOLEAN : runtimeImportCredentials(valid))
          => store'.products = store.products
     /\ (nextId' # nextId /\ file' # file) => idsInFile(file) \subseteq idsInFile(file')
    ]_vars

\* C38: the MCP server initializes once: even when several requests arrive
\* before the first initialization completes, exactly one runtime and one
\* local store manager are created and loaded, and no request's store mutation
\* is lost to a second initialization replacing the runtime.
C38_InitializesOnce ==
  /\ [](server.created <= 1)
  /\ [][server.runtime # 0 =>
          idsOf(managerStore(server.runtime).products)
            \subseteq idsOf(managerStore(server.runtime)'.products)]_vars

\* C39: no sequence of local operations makes generateSyncManifest emit an
\* entry with action delete: every entry is a create, an update or an
\* unchanged entry of a product the store holds, and a product that has a
\* remote_id and is deleted locally has no entry in the manifest a later push
\* sends.
C39_NoDeleteEntries ==
  [](/\ \A i \in 1..Len(manifestProducts(store)) :
          LET e == manifestProducts(store)[i]
          IN  /\ e.action \in {"create", "update", "unchanged"}
              /\ hasProduct(store, e.local_id)
     /\ \A P \in issued \ idsOf(store.products) : entriesFor(store, P) = <<>>
     /\ \A k \in 1..Len(store.products) :
          LET p     == store.products[k]
              after == deleteProductStore(store, p["local_id"])
          IN  Truthy(p["remote_id"]) =>
                \A i \in 1..Len(manifestProducts(after)) :
                  LET e == manifestProducts(after)[i]
                  IN  /\ e.action # "delete"
                      /\ e.local_id # p["local_id"])

\* C39 witness: product 2 was deleted, and product 1, synced with a remote id
\* and in the manifest as unchanged, is the next one deleteProduct can remove
C39_Witness ==
  /\ 2 \in issued
  /\ ~hasProduct(store, 2)
  /\ hasProduct(store, 1)
  /\ productOf(store, 1)["status"] = "synced"
  /\ Truthy(productOf(store, 1)["remote_id"])
  /\ Len(entriesFor(store, 1)) = 1
  /\ store.sync_history # <<>>

====
